---------------------------- MODULE Spec2Model ----------------------------
(***************************************************************************)
(* Model of the two icon scripts of the repository:                        *)
(*                                                                         *)
(*   scripts/fix_icon_padding.py   (the Padder, main)                      *)
(*   scripts/generate_app_icons.py (the IconGenerator, generate_icons)     *)
(*                                                                         *)
(* Each script is a straight-line pipeline; every statement that changes   *)
(* state is one action and the program counter says which comes next.      *)
(*                                                                         *)
(* The Padder's geometry is computed in Python floats.  The outcome of     *)
(* round() depends on how the double arithmetic rounds, so the model       *)
(* carries doubles bit for bit: a non-negative double is a record          *)
(* [m, e] with m its 53-bit significand (a sequence of bits, most          *)
(* significant first, m[1] = 1) and value m * 2^e; zero is [m |-> <<>>].   *)
(* Every operation is the correctly rounded (round-half-to-even) result    *)
(* of the exact one, as IEEE 754 prescribes for +, -, *, /.                *)
(***************************************************************************)
EXTENDS Integers, Sequences, FiniteSets, TLC

(* ------------------------------------------------------------------ *)
(* Bit strings (most significant bit first)                           *)
(* ------------------------------------------------------------------ *)

\* Width of the significand of a Python float (IEEE 754 binary64).
MantBits == 53

\* Bit strings are multiplied sixteen bits at a time, which keeps every
\* intermediate product of a chunk and an image dimension below 2^31.
ChunkBits == 16

Zeros(n) == [i \in 1..n |-> 0]

\* Number of binary digits of the natural number n (0 for 0).
BitLen(n) == CHOOSE k \in 0..30 : n < 2^k /\ (k = 0 \/ 2^(k - 1) <= n)

\* The w low binary digits of n.
FixBits(n, w) == [i \in 1..w |-> (n \div 2^(w - i)) % 2]

\* Binary digits of the natural number n, no leading zero (<<>> for 0).
NatBits(n) == FixBits(n, BitLen(n))

RECURSIVE BitsNat(_)
\* The natural number a short bit string stands for.
BitsNat(b) ==
    IF b = <<>> THEN 0 ELSE 2 * BitsNat(SubSeq(b, 1, Len(b) - 1)) + b[Len(b)]

AnyOne(b) == \E i \in 1..Len(b) : b[i] = 1

\* b without its leading zeros.
Strip(b) ==
    IF ~AnyOne(b) THEN <<>>
    ELSE LET first == CHOOSE i \in 1..Len(b) :
                          b[i] = 1 /\ \A j \in 1..(i - 1) : b[j] = 0
         IN  SubSeq(b, first, Len(b))

\* b + 1 on a bit string; one bit longer when b is all ones.
IncBits(b) ==
    IF \A i \in 1..Len(b) : b[i] = 1 THEN <<1>> \o Zeros(Len(b))
    ELSE LET last == CHOOSE i \in 1..Len(b) :
                         b[i] = 0 /\ \A j \in (i + 1)..Len(b) : b[j] = 1
         IN  [i \in 1..Len(b) |-> IF i < last THEN b[i]
                                  ELSE IF i = last THEN 1 ELSE 0]

RECURSIVE MulRec(_, _, _, _)
\* n times the chunks c[1..i] (most significant first) plus carry.
MulRec(n, c, i, carry) ==
    IF i = 0 THEN NatBits(carry)
    ELSE LET t == n * c[i] + carry
         IN  MulRec(n, c, i - 1, t \div 2^ChunkBits)
                 \o FixBits(t % 2^ChunkBits, ChunkBits)

\* n * b for a natural n < 2^14 and a bit string b.
MulBits(n, b) ==
    LET q == (Len(b) + ChunkBits - 1) \div ChunkBits
        p == Zeros(q * ChunkBits - Len(b)) \o b
        c == [i \in 1..q |->
                 BitsNat(SubSeq(p, (i - 1) * ChunkBits + 1, i * ChunkBits))]
    IN  MulRec(n, c, q, 0)

\* 2^k - b as a string of k + 1 bits, for a bit string b of k bits, b > 0.
SubFromPow2(b) ==
    <<0>> \o IncBits([i \in 1..Len(b) |-> 1 - b[i]])

RECURSIVE PowMod(_, _)
\* 2^i mod d.
PowMod(i, d) ==
    IF i = 0 THEN 1 % d
    ELSE IF i % 2 = 0 THEN LET h == PowMod(i \div 2, d) IN (h * h) % d
    ELSE (2 * PowMod(i - 1, d)) % d

\* What is left of r / d after k binary digits: (r * 2^k) mod d.
DivRem(r, d, k) == (r * PowMod(k, d)) % d

\* The first k binary digits after the point of r / d, for 0 <= r < d.
DivFrac(r, d, k) == [i \in 1..k |-> (2 * DivRem(r, d, i - 1)) \div d]

\* a < b for bit strings of equal length.
LexLess(a, b) ==
    \E i \in 1..Len(a) : a[i] < b[i] /\ \A j \in 1..(i - 1) : a[j] = b[j]

(* ------------------------------------------------------------------ *)
(* Doubles                                                            *)
(* ------------------------------------------------------------------ *)

FZero == [m |-> <<>>, e |-> 0]

FIsZero(f) == f.m = <<>>

\* The double nearest to  b * 2^e (+ a positive remainder below one unit of
\* b when sticky), ties to even.
RoundBits(b, e, sticky) ==
    LET s == Strip(b)
        n == Len(s)
    IN  IF n = 0 THEN FZero
        ELSE IF n <= MantBits
             THEN [m |-> s \o Zeros(MantBits - n), e |-> e - (MantBits - n)]
        ELSE LET keep  == SubSeq(s, 1, MantBits)
                 guard == s[MantBits + 1]
                 rest  == sticky \/ AnyOne(SubSeq(s, MantBits + 2, n))
                 up    == guard = 1 /\ (rest \/ keep[MantBits] = 1)
                 inc   == IncBits(keep)
                 e2    == e + (n - MantBits)
             IN  IF ~up THEN [m |-> keep, e |-> e2]
                 ELSE IF Len(inc) = MantBits THEN [m |-> inc, e |-> e2]
                 ELSE [m |-> SubSeq(inc, 1, MantBits), e |-> e2 + 1]

\* n / d as Python computes it for naturals (or exactly representable
\* floats) n >= 0 and d >= 1: the correctly rounded quotient.
FDivInt(n, d) ==
    LET k == MantBits + 2 + Len(NatBits(d))
    IN  RoundBits(NatBits(n \div d) \o DivFrac(n % d, d, k), -k,
                  DivRem(n % d, d, k) # 0)

\* n * f for a natural n (converted to float exactly) and a double f.
FMulInt(n, f) ==
    IF FIsZero(f) \/ n = 0 THEN FZero ELSE RoundBits(MulBits(n, f.m), f.e, FALSE)

\* 2.0 * f: exact.
FTwice(f) == IF FIsZero(f) THEN FZero ELSE [m |-> f.m, e |-> f.e + 1]

\* 1.0 - f for a double 0 <= f <= 1 (f = 1.0 is the one with -f.e < MantBits).
FSubFromOne(f) ==
    IF FIsZero(f) THEN [m |-> <<1>> \o Zeros(MantBits - 1), e |-> 1 - MantBits]
    ELSE IF -f.e < MantBits THEN FZero
    ELSE LET k == -f.e
         IN  RoundBits(SubFromPow2(Zeros(k - MantBits) \o f.m), f.e, FALSE)

\* a < b on doubles.
FLess(a, b) ==
    IF FIsZero(b) THEN FALSE
    ELSE IF FIsZero(a) THEN TRUE
    ELSE IF a.e # b.e THEN a.e < b.e
    ELSE LexLess(a.m, b.m)

\* Python's min(a, b): b when b < a, else a.
FMin(a, b) == IF FLess(b, a) THEN b ELSE a

\* Python's max(a, b) on doubles.
FMax(a, b) == IF FLess(a, b) THEN b ELSE a

\* int(f): the integer part of a double.
TruncToInt(f) ==
    IF FIsZero(f) \/ -f.e >= MantBits THEN 0
    ELSE BitsNat(SubSeq(f.m, 1, MantBits + f.e))

\* int(round(f)): nearest integer, ties to even (float.__round__).
RoundToInt(f) ==
    IF FIsZero(f) THEN 0
    ELSE LET k     == -f.e
             p     == Zeros(IF k > MantBits - 1 THEN k - (MantBits - 1) ELSE 0) \o f.m
             n     == Len(p)
             int   == BitsNat(SubSeq(p, 1, n - k))
             guard == p[n - k + 1]
             rest  == AnyOne(SubSeq(p, n - k + 2, n))
         IN  IF guard = 1 /\ (rest \/ int % 2 = 1) THEN int + 1 ELSE int

Max(a, b) == IF a > b THEN a ELSE b

Min(a, b) == IF a < b THEN a ELSE b

(* ------------------------------------------------------------------ *)
(* Padder: scripts/fix_icon_padding.py                                *)
(* ------------------------------------------------------------------ *)

\* Largest canvas side and largest source side tried exhaustively.
MaxCanvas == 16
MaxSrc == 4

\* --margin_pct is carried in half percents (25 is 12.5 %): every such
\* value is a double without rounding, so margin_pct / 100.0 is the
\* correctly rounded quotient margin_pct_halves / 200.
HalfPctPerUnit == 200

\* The clamp's upper end, 45.0 %, in half percents.
MaxMarginPct == 90

\* Values of --canvas tried: every side up to MaxCanvas, and the default.
\* A canvas below 1 never reaches the paste (Image.new or alpha_composite
\* raises), so sides start at 1.
CanvasSizes == (1..MaxCanvas) \cup {100, 1024}

\* Values of --margin_pct tried, in half percents:
\* -10, 0, 10, 12.5 (the default), 25, 44.5, 45, 45.5 and 100 %.
MarginPcts == {-20, 0, 20, 25, 50, 89, 90, 91, 200}

\* Sizes of the source image tried.
SourceSizes == ((1..MaxSrc) \X (1..MaxSrc)) \cup {<<500, 300>>, <<300, 500>>}

\* The clamp with its upper end at 50 %, where the inset vanishes.
ClampMarginTo50(margin_pct) == Max(0, Min(100, margin_pct))

\* max(0.0, min(45.0, args.margin_pct)), in half percents.
ClampMargin(margin_pct) == Max(0, Min(MaxMarginPct, margin_pct))

\* margin = max(0.0, min(45.0, args.margin_pct)) / 100.0
Margin(margin_pct) == FDivInt(ClampMargin(margin_pct), HalfPctPerUnit)

\* The inset with the margin taken off one side only.
InsetOneSided(c, m) == RoundToInt(FMulInt(c, FSubFromOne(m)))

\* inset = int(round(canvas_size * (1.0 - 2.0 * margin)))
Inset(c, m) == RoundToInt(FMulInt(c, FSubFromOne(FTwice(m))))

\* The scale that fills the inset square (max) instead of fitting in it.
ScaleToFill(i, w, h) == FMax(FDivInt(i, w), FDivInt(i, h))

\* scale = min(inset / im.width, inset / im.height)
Scale(i, w, h) == FMin(FDivInt(i, w), FDivInt(i, h))

\* The new size cut to an integer instead of rounded.
NewDimTruncated(d, s) == Max(1, TruncToInt(FMulInt(d, s)))

\* new_w = max(1, int(round(im.width * scale))), and new_h alike.
NewDim(d, s) == Max(1, RoundToInt(FMulInt(d, s)))

\* The offset rounded up instead of down.
OffsetRoundedUp(c, n) == (c - n + 1) \div 2

\* x = (canvas_size - new_w) // 2, and y alike (floor division).
Offset(c, n) == (c - n) \div 2

\* Image.new("RGBA", (canvas_size, canvas_size), ...)
NewCanvasImage(c) == [width |-> c, height |-> c]

\* Saving the resized image instead of the canvas.
SavedResized(canvas, resized) == resized

\* The image bg.save(args.output, ...) writes.
SavedImage(canvas, resized) == canvas

NoImage == [width |-> 0, height |-> 0]

VARIABLES
    pc,           \* the Padder's next statement
    args,         \* parse_args(): canvas, margin_pct, and what --input and
                  \* --bg_color turn out to be
    canvas_size, margin, inset,
    bg,           \* the canvas image
    im,           \* the decoded source image
    scale, new_w, new_h,
    im_resized,
    x, y,
    output        \* the image written to args.output

padVars == <<pc, args, canvas_size, margin, inset, bg, im, scale, new_w,
             new_h, im_resized, x, y, output>>

VARIABLES
    gen_pc,       \* generate_app_icons.py's next statement
    source,       \* what source_path names: kind, mode, size
    fs_before,    \* the file system when the run starts
    fs,           \* the file system: directories and files under them
    fs_log,       \* the writes made so far, in order
    img,          \* the opened image
    cat, idx,     \* position of the two loops in IOS_ICON_SIZES
    total_icons,
    messages,     \* what was printed
    exit_code     \* the process's exit status, -1 while it runs

genVars == <<gen_pc, source, fs_before, fs, fs_log, img, cat, idx,
             total_icons, messages, exit_code>>

NoArgs == [canvas |-> 0, margin_pct |-> 0, bg_color_ok |-> TRUE,
           input_ok |-> TRUE, input_size |-> <<0, 0>>]

PadInit ==
    /\ pc = "parse_args"
    /\ args = NoArgs
    /\ canvas_size = 0
    /\ margin = FZero
    /\ inset = 0
    /\ bg = NoImage
    /\ im = NoImage
    /\ scale = FZero
    /\ new_w = 0
    /\ new_h = 0
    /\ im_resized = NoImage
    /\ x = 0
    /\ y = 0
    /\ output = NoImage

\* args = parse_args()
ParseArgs ==
    /\ pc = "parse_args"
    /\ \E c \in CanvasSizes, p \in MarginPcts, sz \in SourceSizes,
          cok \in BOOLEAN, iok \in BOOLEAN :
          args' = [canvas |-> c, margin_pct |-> p, bg_color_ok |-> cok,
                   input_ok |-> iok, input_size |-> sz]
    /\ pc' = "inset"
    /\ UNCHANGED <<canvas_size, margin, inset, bg, im, scale, new_w, new_h,
                   im_resized, x, y, output>>
    /\ UNCHANGED genVars

\* canvas_size = args.canvas; margin = ...; inset = ...
ComputeInset ==
    /\ pc = "inset"
    /\ canvas_size' = args.canvas
    /\ margin' = Margin(args.margin_pct)
    /\ inset' = Inset(args.canvas, Margin(args.margin_pct))
    /\ pc' = "new_canvas"
    /\ UNCHANGED <<args, bg, im, scale, new_w, new_h, im_resized, x, y, output>>
    /\ UNCHANGED genVars

\* bg = Image.new("RGBA", (canvas_size, canvas_size),
\*                ImageColor.getcolor(args.bg_color, "RGBA"))
\* getcolor raises ValueError on a string that is no colour.
NewCanvas ==
    /\ pc = "new_canvas"
    /\ IF args.bg_color_ok
       THEN bg' = NewCanvasImage(canvas_size) /\ pc' = "open"
       ELSE bg' = bg /\ pc' = "raised"
    /\ UNCHANGED <<args, canvas_size, margin, inset, im, scale, new_w, new_h,
                   im_resized, x, y, output>>
    /\ UNCHANGED genVars

\* im = Image.open(args.input).convert("RGBA")
\* raises when the file is missing or is no image.
OpenInput ==
    /\ pc = "open"
    /\ IF args.input_ok
       THEN /\ im' = [width |-> args.input_size[1], height |-> args.input_size[2]]
            /\ pc' = "resize"
       ELSE im' = im /\ pc' = "raised"
    /\ UNCHANGED <<args, canvas_size, margin, inset, bg, scale, new_w, new_h,
                   im_resized, x, y, output>>
    /\ UNCHANGED genVars

\* scale = ...; new_w = ...; new_h = ...; im_resized = im.resize((new_w, new_h))
Resize ==
    /\ pc = "resize"
    /\ LET s == Scale(inset, im.width, im.height)
           w == NewDim(im.width, s)
           h == NewDim(im.height, s)
       IN  /\ scale' = s
           /\ new_w' = w
           /\ new_h' = h
           /\ im_resized' = [width |-> w, height |-> h]
    /\ pc' = "paste"
    /\ UNCHANGED <<args, canvas_size, margin, inset, bg, im, x, y, output>>
    /\ UNCHANGED genVars

\* x = ...; y = ...; bg.alpha_composite(im_resized, dest=(x, y))
\* composites in place: bg keeps its size.
CenterPaste ==
    /\ pc = "paste"
    /\ x' = Offset(canvas_size, new_w)
    /\ y' = Offset(canvas_size, new_h)
    /\ pc' = "save"
    /\ UNCHANGED <<args, canvas_size, margin, inset, bg, im, scale, new_w,
                   new_h, im_resized, output>>
    /\ UNCHANGED genVars

\* bg.save(args.output, format="PNG", optimize=True)
Save ==
    /\ pc = "save"
    /\ output' = SavedImage(bg, im_resized)
    /\ pc' = "done"
    /\ UNCHANGED <<args, canvas_size, margin, inset, bg, im, scale, new_w,
                   new_h, im_resized, x, y>>
    /\ UNCHANGED genVars

PadNext ==
    \/ ParseArgs
    \/ ComputeInset
    \/ NewCanvas
    \/ OpenInput
    \/ Resize
    \/ CenterPaste
    \/ Save

(* ------------------------------------------------------------------ *)
(* IconGenerator: scripts/generate_app_icons.py                       *)
(* ------------------------------------------------------------------ *)

\* The size table, in the order the dictionaries are written (the order
\* in which Python iterates them).
IOS_ICON_SIZES == <<
    [category |-> "iphone",
     sizes |-> << <<"Icon-20@1x.png", 20>>,
                  <<"Icon-20@2x.png", 40>>,
                  <<"Icon-20@3x.png", 60>>,
                  <<"Icon-29@1x.png", 29>>,
                  <<"Icon-29@2x.png", 58>>,
                  <<"Icon-29@3x.png", 87>>,
                  <<"Icon-40@1x.png", 40>>,
                  <<"Icon-40@2x.png", 80>>,
                  <<"Icon-40@3x.png", 120>>,
                  <<"Icon-60@2x.png", 120>>,
                  <<"Icon-60@3x.png", 180>> >>],
    [category |-> "ipad",
     sizes |-> << <<"Icon-20@1x.png", 20>>,
                  <<"Icon-20@2x.png", 40>>,
                  <<"Icon-29@1x.png", 29>>,
                  <<"Icon-29@2x.png", 58>>,
                  <<"Icon-40@1x.png", 40>>,
                  <<"Icon-40@2x.png", 80>>,
                  <<"Icon-76@1x.png", 76>>,
                  <<"Icon-76@2x.png", 152>>,
                  <<"Icon-83.5@2x.png", 167>> >>],
    [category |-> "appstore",
     sizes |-> << <<"AppIcon-1024.png", 1024>> >>] >>

\* Paths are sequences of components; output_dir is one component.
output_dir == "AppIcons"

\* category_dir = os.path.join(output_dir, category)
CategoryDir(category) == <<output_dir, category>>

\* The output path joined to output_dir instead of category_dir.
OutputPathFlat(category, filename) == <<output_dir, filename>>

\* output_path = os.path.join(category_dir, filename)
OutputPath(category, filename) == CategoryDir(category) \o <<filename>>

\* if not os.path.exists(source_path)
SourceExists(src) == src.kind # "missing"

\* Image.open identifies the file from its header and raises on a file
\* that is no image (or on a directory); the pixel data is read later, by
\* the first operation that needs it (convert, resize).
OpenRaises(src) == src.kind = "not_image"

\* Reading the pixel data raises when the data is truncated or corrupt.
LoadRaises(src) == src.kind = "truncated"

\* Converting palette images only.
NeedsConvertPaletteOnly(mode) == mode = "P"

\* if img.mode != 'RGBA'
NeedsConvert(mode) == mode # "RGBA"

\* if category == 'appstore'
Flattened(category) == category = "appstore"

\* The image saved for an icon: the resized RGBA image, or for the App
\* Store the RGB background it was pasted on.
IconImage(category, size, mode) ==
    [width |-> size, height |-> size,
     mode |-> IF Flattened(category) THEN "RGB" ELSE mode]

\* os.makedirs(path, exist_ok=True): the directory and its parents.
MakeDirs(dirs, path) == dirs \cup {SubSeq(path, 1, n) : n \in 1..Len(path)}

EmptyFs == [dirs |-> {}, files |-> <<>>]

\* What the output location may hold before the run: nothing; an earlier
\* run's directory with an icon of another size and mode; a stray file.
FsBefore == {
    EmptyFs,
    [dirs |-> {<<output_dir>>, <<output_dir, "iphone">>},
     files |-> (<<output_dir, "iphone", "Icon-20@1x.png">> :>
                   [width |-> 64, height |-> 64, mode |-> "RGB"])],
    [dirs |-> {<<output_dir>>},
     files |-> (<<output_dir, "old.png">> :>
                   [width |-> 64, height |-> 64, mode |-> "P"])] }

SourceKinds == {"missing", "not_image", "truncated", "valid"}

SourceModes == {"RGBA", "RGB", "P"}

NoSource == [kind |-> "missing", mode |-> "RGBA", size |-> <<0, 0>>]

NoImg == [mode |-> "", width |-> 0, height |-> 0, loaded |-> FALSE]

GenInit ==
    /\ gen_pc = "main"
    /\ source = NoSource
    /\ fs_before = EmptyFs
    /\ fs = EmptyFs
    /\ fs_log = <<>>
    /\ img = NoImg
    /\ cat = 0
    /\ idx = 0
    /\ total_icons = 0
    /\ messages = <<>>
    /\ exit_code = -1

\* The script's entry: without a source argument print the usage and exit
\* with status 1, else call generate_icons(source_image, output_directory).
Main ==
    /\ gen_pc = "main"
    /\ \/ /\ gen_pc' = "exited"
          /\ messages' = Append(messages, "usage")
          /\ exit_code' = 1
          /\ UNCHANGED <<source, fs_before, fs>>
       \/ /\ \E k \in SourceKinds, m \in SourceModes, sz \in SourceSizes :
                source' = [kind |-> k, mode |-> m, size |-> sz]
          /\ \E f \in FsBefore : fs_before' = f /\ fs' = f
          /\ gen_pc' = "check_exists"
          /\ UNCHANGED <<messages, exit_code>>
    /\ UNCHANGED <<fs_log, img, cat, idx, total_icons>>
    /\ UNCHANGED padVars

\* The existence check made after the output directory is created.
CheckExistsAfterMakedirs ==
    /\ gen_pc = "check_exists"
    /\ fs' = [fs EXCEPT !.dirs = MakeDirs(fs.dirs, <<output_dir>>)]
    /\ fs_log' = Append(fs_log, [op |-> "makedirs", path |-> <<output_dir>>])
    /\ IF SourceExists(source)
       THEN gen_pc' = "open" /\ UNCHANGED <<messages, exit_code>>
       ELSE /\ gen_pc' = "exited"
            /\ messages' = Append(messages, "not_found")
            /\ exit_code' = 1
    /\ UNCHANGED <<source, fs_before, img, cat, idx, total_icons>>
    /\ UNCHANGED padVars

\* if not os.path.exists(source_path): print(...); sys.exit(1)
CheckExists ==
    /\ gen_pc = "check_exists"
    /\ IF SourceExists(source)
       THEN gen_pc' = "open" /\ UNCHANGED <<messages, exit_code>>
       ELSE /\ gen_pc' = "exited"
            /\ messages' = Append(messages, "not_found")
            /\ exit_code' = 1
    /\ UNCHANGED <<source, fs_before, fs, fs_log, img, cat, idx, total_icons>>
    /\ UNCHANGED padVars

\* try: img = Image.open(source_path); print(loaded)
\* except Exception as e: print(f"Error opening image: {e}"); sys.exit(1)
OpenSource ==
    /\ gen_pc = "open"
    /\ IF OpenRaises(source)
       THEN /\ gen_pc' = "exited"
            /\ messages' = Append(messages, "error_opening")
            /\ exit_code' = 1
            /\ img' = img
       ELSE /\ img' = [mode |-> source.mode, width |-> source.size[1],
                       height |-> source.size[2], loaded |-> FALSE]
            /\ messages' = Append(messages, "loaded")
            /\ gen_pc' = "convert"
            /\ exit_code' = exit_code
    /\ UNCHANGED <<source, fs_before, fs, fs_log, cat, idx, total_icons>>
    /\ UNCHANGED padVars

\* if img.mode != 'RGBA': img = img.convert('RGBA')
\* convert reads the pixel data; an exception it raises is not caught, so
\* the interpreter prints the traceback and exits with status 1.
ConvertRGBA ==
    /\ gen_pc = "convert"
    /\ IF ~NeedsConvert(img.mode)
       THEN gen_pc' = "makedirs" /\ UNCHANGED <<img, messages, exit_code>>
       ELSE IF LoadRaises(source)
       THEN /\ gen_pc' = "exited"
            /\ messages' = Append(messages, "traceback")
            /\ exit_code' = 1
            /\ img' = img
       ELSE /\ img' = [img EXCEPT !.mode = "RGBA", !.loaded = TRUE]
            /\ gen_pc' = "makedirs"
            /\ UNCHANGED <<messages, exit_code>>
    /\ UNCHANGED <<source, fs_before, fs, fs_log, cat, idx, total_icons>>
    /\ UNCHANGED padVars

\* os.makedirs(output_dir, exist_ok=True); total_icons = 0
MakeOutputDir ==
    /\ gen_pc = "makedirs"
    /\ fs' = [fs EXCEPT !.dirs = MakeDirs(fs.dirs, <<output_dir>>)]
    /\ fs_log' = Append(fs_log, [op |-> "makedirs", path |-> <<output_dir>>])
    /\ total_icons' = 0
    /\ cat' = 1
    /\ gen_pc' = "category"
    /\ UNCHANGED <<source, fs_before, img, idx, messages, exit_code>>
    /\ UNCHANGED padVars

\* for category, sizes in IOS_ICON_SIZES.items():
\*     category_dir = ...; os.makedirs(category_dir, exist_ok=True); print(...)
EnterCategory ==
    /\ gen_pc = "category"
    /\ cat <= Len(IOS_ICON_SIZES)
    /\ LET dir == CategoryDir(IOS_ICON_SIZES[cat].category)
       IN  /\ fs' = [fs EXCEPT !.dirs = MakeDirs(fs.dirs, dir)]
           /\ fs_log' = Append(fs_log, [op |-> "makedirs", path |-> dir])
    /\ messages' = Append(messages, "generating")
    /\ idx' = 1
    /\ gen_pc' = "icon"
    /\ UNCHANGED <<source, fs_before, img, cat, total_icons, exit_code>>
    /\ UNCHANGED padVars

\* for filename, size in sizes.items(): resize, flatten for the App Store,
\* save, print, total_icons += 1.  resize reads the pixel data if nothing
\* has yet; an exception it raises is not caught.
GenerateIcon ==
    /\ gen_pc = "icon"
    /\ IF LoadRaises(source)
       THEN /\ gen_pc' = "exited"
            /\ messages' = Append(messages, "traceback")
            /\ exit_code' = 1
            /\ UNCHANGED <<fs, fs_log, img, cat, idx, total_icons>>
       ELSE LET category == IOS_ICON_SIZES[cat].category
                sizes    == IOS_ICON_SIZES[cat].sizes
                filename == sizes[idx][1]
                size     == sizes[idx][2]
                path     == OutputPath(category, filename)
                saved    == IconImage(category, size, img.mode)
            IN  /\ img' = [img EXCEPT !.loaded = TRUE]
                /\ fs' = [fs EXCEPT !.files = (path :> saved) @@ fs.files]
                /\ fs_log' = Append(fs_log, [op |-> "save", path |-> path,
                                             image |-> saved,
                                             category |-> category])
                /\ messages' = Append(messages, "icon")
                /\ total_icons' = total_icons + 1
                /\ IF idx < Len(sizes)
                   THEN idx' = idx + 1 /\ cat' = cat /\ gen_pc' = "icon"
                   ELSE idx' = idx /\ cat' = cat + 1 /\ gen_pc' = "category"
                /\ exit_code' = exit_code
    /\ UNCHANGED <<source, fs_before>>
    /\ UNCHANGED padVars

\* The summary prints and return output_dir; the script ends, status 0.
Finish ==
    /\ gen_pc = "category"
    /\ cat > Len(IOS_ICON_SIZES)
    /\ messages' = Append(messages, "summary")
    /\ exit_code' = 0
    /\ gen_pc' = "done"
    /\ UNCHANGED <<source, fs_before, fs, fs_log, img, cat, idx, total_icons>>
    /\ UNCHANGED padVars

GenNext ==
    \/ Main
    \/ CheckExists
    \/ OpenSource
    \/ ConvertRGBA
    \/ MakeOutputDir
    \/ EnterCategory
    \/ GenerateIcon
    \/ Finish

(* ------------------------------------------------------------------ *)
(* Specifications: the two scripts run independently of each other    *)
(* ------------------------------------------------------------------ *)

vars == <<padVars, genVars>>

Init == PadInit /\ GenInit

\* A run of fix_icon_padding.py.
PadderSpec == Init /\ [][PadNext]_vars

\* A run of generate_app_icons.py.
IconSpec == Init /\ [][GenNext]_vars

(* ------------------------------------------------------------------ *)
(* Properties of the Padder (checked under PadderSpec)                *)
(* ------------------------------------------------------------------ *)

Resized == pc \in {"paste", "save", "done"}

Pasted == pc \in {"save", "done"}

\* C1 as stated: the resampled size never exceeds the inset square,
\* new_w <= inset and new_h <= inset, for every source, canvas and margin.
C1_FitsInsetAlways == Resized => new_w <= inset /\ new_h <= inset

\* C1, amended: the resampled size never exceeds the inset square, except
\* that each side is at least 1 pixel: new_w <= max(1, inset) and
\* new_h <= max(1, inset); so it fits whenever inset >= 1.
C1_FitsInset ==
    Resized => new_w <= Max(1, inset) /\ new_h <= Max(1, inset)

\* A wide source scaled up to the full width of an inset of 2 or more.
C1_Witness ==
    /\ pc = "paste"
    /\ inset >= 2
    /\ im.width > im.height
    /\ im.width < inset
    /\ new_w = inset
    /\ new_h < inset

Scenario500x300 ==
    /\ args.canvas = 1024
    /\ args.margin_pct = 25
    /\ args.input_size = <<500, 300>>

\* C2 as stated: for a 500x300 source, canvas 1024 and margin 12.5 the
\* run computes inset 768, scale 1.536, a pasted region of 768x460 and the
\* offsets x = 128, y = 282.
C2_ScenarioAsStated ==
    (pc = "done" /\ Scenario500x300) =>
        /\ inset = 768
        /\ scale = FDivInt(1536, 1000)
        /\ new_w = 768 /\ new_h = 460
        /\ x = 128 /\ y = 282

\* C2, amended: for a 500x300 source, canvas 1024 and margin 12.5 the run
\* computes inset 768, scale 1.536, a pasted region of 768x461 (300 * 1.536
\* = 460.8 is rounded, not cut) and the offsets x = 128, y = 563 // 2 = 281.
C2_Scenario ==
    (pc = "done" /\ Scenario500x300) =>
        /\ inset = 768
        /\ scale = FDivInt(1536, 1000)
        /\ new_w = 768 /\ new_h = 461
        /\ x = 128 /\ y = 281
        /\ im_resized = [width |-> 768, height |-> 461]

\* The scenario's run has saved its output.
C2_Witness == pc = "done" /\ Scenario500x300 /\ output # NoImage

InsetComputed == pc \notin {"parse_args", "inset"}

\* C3 as stated: with margin_pct >= 45 the inset is at least 10 % of
\* canvas_size and never zero, for every canvas_size.
C3_TenPercentAlways ==
    (InsetComputed /\ args.margin_pct >= MaxMarginPct) =>
        10 * inset >= canvas_size /\ inset # 0

\* C3, amended: with margin_pct >= 45 the inset is 10 % of canvas_size
\* rounded to the nearest integer, half-way cases down (so it may fall short
\* of 10 % by up to half a pixel), and it is zero exactly when
\* canvas_size <= 5.
C3_TenPercentRounded ==
    (InsetComputed /\ args.margin_pct >= MaxMarginPct) =>
        /\ canvas_size - 5 <= 10 * inset
        /\ 10 * inset < canvas_size + 5
        /\ (inset = 0 <=> canvas_size <= 5)

\* A margin above 45 on a canvas of 15: the inset is 1, short of 1.5.
C3_Witness ==
    /\ pc = "new_canvas"
    /\ args.margin_pct > MaxMarginPct
    /\ canvas_size = 15
    /\ inset = 1

\* C6: whenever the run reaches the save, the image written is exactly
\* canvas_size x canvas_size, whatever the source size, margin and offsets.
C6_OutputIsCanvas ==
    pc = "done" =>
        /\ output.width = args.canvas
        /\ output.height = args.canvas
        /\ canvas_size = args.canvas

\* A saved output whose pasted image is smaller than the canvas and not
\* square, under a clamped margin.
C6_Witness ==
    /\ pc = "done"
    /\ args.margin_pct > MaxMarginPct
    /\ new_w < canvas_size
    /\ new_h < new_w
    /\ x > 0

\* C7: the pasted image is centred within 1 px: the right margin minus the
\* left margin is 0 or 1, and is 1 exactly when canvas_size - new_w is odd;
\* likewise bottom minus top with new_h.
C7_Centred ==
    Pasted =>
        LET dx == (canvas_size - new_w - x) - x
            dy == (canvas_size - new_h - y) - y
        IN  /\ dx \in {0, 1}
            /\ dy \in {0, 1}
            /\ (dx = 1) <=> ((canvas_size - new_w) % 2 = 1)
            /\ (dy = 1) <=> ((canvas_size - new_h) % 2 = 1)

\* A paste with an odd horizontal and an even vertical difference.
C7_Witness ==
    /\ pc = "save"
    /\ (canvas_size - new_w) % 2 = 1
    /\ (canvas_size - new_h) % 2 = 0
    /\ x > 0
    /\ y > x

\* The geometry a run with the given arguments computes.
Geometry(c, p, sz) ==
    LET i  == Inset(c, Margin(p))
        s  == Scale(i, sz[1], sz[2])
        nw == NewDim(sz[1], s)
        nh == NewDim(sz[2], s)
    IN  [inset |-> i, new_w |-> nw, new_h |-> nh,
         x |-> Offset(c, nw), y |-> Offset(c, nh),
         output |-> NewCanvasImage(c)]

RunGeometry ==
    [inset |-> inset, new_w |-> new_w, new_h |-> new_h, x |-> x, y |-> y,
     output |-> output]

\* C8: a run with margin_pct above 45 (such as 100) ends with the inset,
\* resampled size, offsets and output of the run with margin_pct = 45 on
\* the same canvas and source, and a run with margin_pct below 0 (such as
\* -10) with those of margin_pct = 0.
C8_MarginClamp ==
    pc = "done" =>
        /\ args.margin_pct > 90 =>
               RunGeometry = Geometry(args.canvas, 90, args.input_size)
        /\ args.margin_pct < 0 =>
               RunGeometry = Geometry(args.canvas, 0, args.input_size)

\* A finished run with margin_pct = 100 whose inset is neither 0 nor the
\* canvas.
C8_Witness ==
    /\ pc = "done"
    /\ args.margin_pct = 200
    /\ inset > 0
    /\ inset < canvas_size

(* ------------------------------------------------------------------ *)
(* Properties of the IconGenerator (checked under IconSpec)           *)
(* ------------------------------------------------------------------ *)

Called == gen_pc # "main" /\ "usage" \notin {messages[i] : i \in 1..Len(messages)}

Printed(msg) == \E i \in 1..Len(messages) : messages[i] = msg

\* C4: a source that exists but cannot be read or decoded makes the run
\* print an error and exit with status 1 before any output is produced: no
\* directory is created and no file written.
C4_FailFastOnUndecodable ==
    (Called /\ source.kind \in {"not_image", "truncated"}) =>
        /\ fs_log = <<>>
        /\ fs = fs_before
        /\ gen_pc \in {"exited"} => exit_code = 1

Table(name) == CHOOSE i \in 1..Len(IOS_ICON_SIZES) : IOS_ICON_SIZES[i].category = name

FilesUnder(dir) ==
    {path \in DOMAIN fs.files : Len(path) = Len(dir) + 1
                                /\ SubSeq(path, 1, Len(dir)) = dir}

\* C5: for a valid source and an initially empty output directory, a
\* completed run leaves exactly 21 files: 11 under iphone, 9 under ipad and
\* 1 under appstore, named as the table says and nothing else, each
\* size x size for its declared size, and total_icons is 21.
C5_ExactlyTheTable ==
    (gen_pc = "done" /\ source.kind = "valid" /\ fs_before = EmptyFs) =>
        /\ total_icons = 21
        /\ Cardinality(DOMAIN fs.files) = 21
        /\ Cardinality(FilesUnder(<<"AppIcons", "iphone">>)) = 11
        /\ Cardinality(FilesUnder(<<"AppIcons", "ipad">>)) = 9
        /\ Cardinality(FilesUnder(<<"AppIcons", "appstore">>)) = 1
        /\ fs.dirs = {<<"AppIcons">>, <<"AppIcons", "iphone">>,
                      <<"AppIcons", "ipad">>, <<"AppIcons", "appstore">>}
        /\ \A name \in {"iphone", "ipad", "appstore"} :
             LET sizes == IOS_ICON_SIZES[Table(name)].sizes
             IN  /\ FilesUnder(<<"AppIcons", name>>) =
                        {<<"AppIcons", name, sizes[i][1]>> : i \in 1..Len(sizes)}
                 /\ \A i \in 1..Len(sizes) :
                        LET f == fs.files[<<"AppIcons", name, sizes[i][1]>>]
                        IN  f.width = sizes[i][2] /\ f.height = sizes[i][2]

\* A completed run on a valid non-square source into an empty location.
C5_Witness ==
    /\ gen_pc = "done"
    /\ exit_code = 0
    /\ source.kind = "valid"
    /\ source.size[1] # source.size[2]
    /\ fs_before = EmptyFs

\* C9: when the source path does not exist the run creates no directory
\* and no file, the file system is as before, and it exits non-zero; the
\* run goes from the existence check straight to the exit.
C9_MissingSourceNoOutput ==
    (Called /\ source.kind = "missing") =>
        /\ fs = fs_before
        /\ fs_log = <<>>
        /\ gen_pc \in {"check_exists", "exited"}
        /\ gen_pc = "exited" => (exit_code # 0 /\ exit_code # -1)

\* A run on a missing source that has exited after the diagnostic.
C9_Witness ==
    /\ gen_pc = "exited"
    /\ source.kind = "missing"
    /\ Printed("not_found")
    /\ exit_code = 1

\* C10: every file written for appstore is RGB (no alpha), every file
\* written for iphone or ipad is RGBA, whatever the source's mode.
C10_Modes ==
    \A i \in 1..Len(fs_log) :
        fs_log[i].op = "save" =>
            /\ fs_log[i].image.mode =
                   (IF fs_log[i].category = "appstore" THEN "RGB" ELSE "RGBA")
            /\ fs.files[fs_log[i].path].mode =
                   (IF fs_log[i].category = "appstore" THEN "RGB" ELSE "RGBA")

\* A completed run on a source that is not RGBA.
C10_Witness ==
    /\ gen_pc = "done"
    /\ source.mode = "RGB"
    /\ Len(fs_log) > 21
=============================================================================
